---- MODULE Spec2Model ----
(***************************************************************************)
(* Client-side job/batch tracking and polling engine of the doc-to-image   *)
(* front end (src/frontend/main.js).                                       *)
(*                                                                         *)
(* The browser runs one handler at a time (timer callbacks, fetch          *)
(* continuations, click handlers); a handler is suspended only at an       *)
(* `await fetch`.  Every action below is one such run-to-completion piece: *)
(* the part of a handler up to its fetch, or the part after the response   *)
(* has arrived.  Requests in flight are state.                             *)
(*                                                                         *)
(* The DOM is modelled by what the code reads back from it:                *)
(*   taskEls[j]        the element document.getElementById("task-"+j)      *)
(*                     finds (state text, download link shown), or NoEl;   *)
(*   activeBatches[b]  the registry entry, with whether its container is   *)
(*                     still in the document and how many .batch-download  *)
(*                     buttons the container holds.                        *)
(* Task elements created inside a container that logout has detached are   *)
(* not in the document, no code can find them again, and they are left out.*)
(***************************************************************************)
EXTENDS Integers, FiniteSets, Sequences, TLC

\* ---------------------------------------------------------------- bounds
NumJobs == 2       \* job identifiers the service can hand out
NumBatches == 1    \* batch identifiers the service can hand out
MaxDocs == 2       \* documents in one submission
MaxRequests == 2   \* status requests issued, all timers together
MaxTimers == 3     \* setInterval calls
MaxDownloads == 1  \* download requests in flight

Jobs == 1..NumJobs
Batches == 1..NumBatches
Intervals == 1..MaxTimers

States == {"queued", "processing", "completed", "failed"}
Terminal == {"completed", "failed"}

VARIABLES
  token,          \* localStorage[AUTH_TOKEN_KEY]: 0 = absent, 1 = a jwt
  user,           \* localStorage[AUTH_USER_KEY] present
  panel,          \* which panel is shown: "login" or "main"
  pollIntervals,  \* Map taskId -> interval id (0 = no entry)
  timers,         \* interval ids set and not yet cleared
  created,        \* created[i] = the taskId in the closure of interval i
  cycles,         \* cycles[i] = status requests interval i has issued
  polls,          \* status requests in flight
  taskEls,        \* task elements in the document
  activeBatches,  \* Map batch_id -> {taskIds, completed, container}
  upload,         \* the submission in flight, or NoUpload
  downloads,      \* download requests in flight
  dlFailed,       \* a 'Download failed' alert was raised since the last login
  expired,        \* 'Session expired' alerts since the last login: which handler
                  \* raised each, and how many live timers that handler cancelled
  applied,        \* applied[i] = cycle number of the last response of interval i
                  \* that renderTask was given
  svc             \* the conversion service's job records

vars == <<token, user, panel, pollIntervals, timers, created, cycles, polls,
          taskEls, activeBatches, upload, downloads, dlFailed, expired, applied, svc>>

NoEl == [state |-> "none", dl |-> FALSE]
NoBatch == [registered |-> FALSE, taskIds |-> {}, completed |-> {}, attached |-> FALSE, btn |-> 0]
NoUpload == [sent |-> FALSE, jobs |-> <<>>]
NoJob == [state |-> "none", batch |-> 0]

\* A job record as the service returns it (src/frontend/main.js reads these fields).
TaskRecord(id, b, s) == [task_id |-> id, batch_id |-> b, state |-> s, download_url |-> (s = "completed")]

Init ==
  /\ \E k \in {0, 1} :
       /\ token = k
       /\ user = (k = 1)
       /\ panel = IF k = 1 THEN "main" ELSE "login"
  /\ pollIntervals = [j \in Jobs |-> 0]
  /\ timers = {}
  /\ created = <<>>
  /\ cycles = [i \in Intervals |-> 0]
  /\ polls = {}
  /\ taskEls = [j \in Jobs |-> NoEl]
  /\ activeBatches = [b \in Batches |-> NoBatch]
  /\ upload = NoUpload
  /\ downloads = 0
  /\ dlFailed = FALSE
  /\ expired = <<>>
  /\ applied = [i \in Intervals |-> 0]
  /\ svc = [j \in Jobs |-> NoJob]

\* ------------------------------------------------------- the client's state
\* The client's mutable state as one record, so that a handler is a composition
\* of the functions it calls.
Client ==
  [token |-> token, user |-> user, panel |-> panel, reg |-> pollIntervals,
   live |-> timers, made |-> created, els |-> taskEls, batches |-> activeBatches]

Becomes(c) ==
  /\ token' = c.token
  /\ user' = c.user
  /\ panel' = c.panel
  /\ pollIntervals' = c.reg
  /\ timers' = c.live
  /\ created' = c.made
  /\ taskEls' = c.els
  /\ activeBatches' = c.batches

\* logout: removeToken, removeUser, showLoginPanel, tasksContainer.innerHTML = '',
\* clearInterval on every registered interval, pollIntervals.clear().
\* activeBatches is not touched; its containers leave the document with the rest
\* of tasksContainer.
Logout(c) ==
  [c EXCEPT !.token = 0,
            !.user = FALSE,
            !.panel = "login",
            !.els = [j \in Jobs |-> NoEl],
            !.batches = [b \in Batches |-> [c.batches[b] EXCEPT !.attached = FALSE]],
            !.live = c.live \ {c.reg[j] : j \in Jobs},
            !.reg = [j \in Jobs |-> 0]]

\* Unsubscribe that cancels the timer and leaves the registry entry behind.
UnsubscribeTimerOnly(c, i) == [c EXCEPT !.live = c.live \ {i}]

\* The interval callback's own cleanup: clearInterval(interval) on the interval of
\* the closure, pollIntervals.delete(taskId) on whatever entry the task has.
Unsubscribe(c, i) ==
  [c EXCEPT !.live = c.live \ {i}, !.reg[c.made[i]] = 0]

\* renderTask, lines 245-264: find or create the task element, set its state text,
\* show the download link when the record has a download_url.
RenderEls(c, task) ==
  LET id == task.task_id
      b == task.batch_id
      found == c.els[id].state # "none"
      inBatch == b # 0 /\ c.batches[b].registered
      inDocument == found \/ ~inBatch \/ c.batches[b].attached
  IN  IF inDocument
      THEN [c.els EXCEPT ![id] = [state |-> task.state, dl |-> @.dl \/ task.download_url]]
      ELSE c.els

\* AllCompleted with the size test off by one.
AllCompletedEarly(batch, done) ==
  Cardinality(done) >= Cardinality(batch.taskIds) - 1 /\ batch.btn = 0

\* renderTask, line 272: the test that adds the batch download button.
AllCompleted(batch, done) ==
  Cardinality(done) = Cardinality(batch.taskIds) /\ batch.btn = 0

\* renderTask, line 270: the identifiers in the completed set after the add.
CompletedAdd(batch, id) == batch.completed \cup {id}

\* TrackBatch that makes an entry for a batch it does not find.
TrackBatchLazy(c, task) ==
  LET b == task.batch_id
  IN  IF b # 0 /\ task.state = "completed"
      THEN LET e == IF c.batches[b].registered
                    THEN c.batches[b]
                    ELSE [registered |-> TRUE, taskIds |-> {task.task_id}, completed |-> {},
                          attached |-> TRUE, btn |-> 0]
               done == CompletedAdd(e, task.task_id)
           IN  [c.batches EXCEPT ![b] = [e EXCEPT !.completed = done,
                                                  !.btn = IF AllCompleted(e, done) THEN @ + 1 ELSE @]]
      ELSE c.batches

\* renderTask, lines 266-277: batch tracking.
TrackBatch(c, task) ==
  LET b == task.batch_id
  IN  IF b # 0 /\ task.state = "completed" /\ c.batches[b].registered
      THEN LET done == CompletedAdd(c.batches[b], task.task_id)
           IN  [c.batches EXCEPT ![b].completed = done,
                                 ![b].btn = IF AllCompleted(c.batches[b], done) THEN @ + 1 ELSE @]
      ELSE c.batches

RenderTask(c, task) ==
  [c EXCEPT !.els = RenderEls(c, task), !.batches = TrackBatch(c, task)]

\* pollTask, lines 280-281 and 314: no-op when the task has an entry, else a new
\* interval whose id is registered under the task.
PollTask(c, taskId) ==
  IF c.reg[taskId] # 0
  THEN c
  ELSE LET i == Len(c.made) + 1
       IN  [c EXCEPT !.made = Append(c.made, taskId), !.live = c.live \cup {i}, !.reg[taskId] = i]

\* submit handler, lines 398-420: the batch of the first record is registered with
\* the task ids of all the records.
RegisterBatch(c, tasks) ==
  IF Len(tasks) > 0 /\ tasks[1].batch_id # 0
  THEN [c EXCEPT !.batches[tasks[1].batch_id] =
          [registered |-> TRUE, taskIds |-> {tasks[k].task_id : k \in 1..Len(tasks)},
           completed |-> {}, attached |-> TRUE, btn |-> 0]]
  ELSE c

\* submit handler, lines 422-425 and 427-428: renderTask then pollTask per record.
RECURSIVE ForEachTask(_, _)
ForEachTask(c, tasks) ==
  IF tasks = <<>>
  THEN c
  ELSE ForEachTask(PollTask(RenderTask(c, Head(tasks)), Head(tasks).task_id), Tail(tasks))

\* Submitted that registers the batch after the records were rendered and polled.
SubmittedRegisterLast(c, body) ==
  IF body.array THEN RegisterBatch(ForEachTask(c, body.tasks), body.tasks)
                ELSE ForEachTask(c, body.tasks)

\* submit handler, lines 394-429: body is [array, tasks].
Submitted(c, body) ==
  IF body.array THEN ForEachTask(RegisterBatch(c, body.tasks), body.tasks)
                ELSE ForEachTask(c, body.tasks)

\* ------------------------------------------------- the conversion service
\* The service of spec section 6: job identifiers are never reused, the records of
\* one multi-document submission share one fresh batch identifier, a status request
\* returns the record of the job asked for, and a job moves
\* queued -> processing -> completed | failed.
Rank(s) == CASE s = "none" -> 0 [] s = "queued" -> 1 [] s = "processing" -> 2 [] OTHER -> 3

UsedJobs == Cardinality({j \in Jobs : svc[j].state # "none"})
UsedBatches == Cardinality({svc[j].batch : j \in Jobs} \ {0})

FreshJobs(n) == [k \in 1..n |-> UsedJobs + k]

Accept(jobs) ==
  [j \in Jobs |->
     IF \E k \in 1..Len(jobs) : jobs[k] = j
     THEN [state |-> "queued", batch |-> IF Len(jobs) > 1 THEN UsedBatches + 1 ELSE 0]
     ELSE svc[j]]

\* The states a job in state s may have moved to since it was last looked at.
Later(s) ==
  {x \in States : \/ x = s
                  \/ Rank(s) < Rank(x) /\ s # "none"}

\* The service answers a status request when it receives it: the record of the job
\* asked for, in the state the job has by then.
ServiceStatus(r) == TaskRecord(created[r.iv], svc[created[r.iv]].batch, r.snap)

\* The service answers a submission as soon as it has created the jobs: their
\* records, all queued.
ServiceBody ==
  [array |-> Len(upload.jobs) > 1,
   tasks |-> [k \in 1..Len(upload.jobs) |->
                TaskRecord(upload.jobs[k], svc[upload.jobs[k]].batch, "queued")]]

\* The service's records once job t has been seen in state s.
Seen(t, s) == [svc EXCEPT ![t].state = s]

\* ------------------------------------------------------------ the handlers
\* Live timers a handler cancelled.
Cancelled(c) == Cardinality(timers) - Cardinality(c.live)

\* login, lines 111-131, and the login form's handler, lines 335-337, on a
\* successful response.
Login ==
  /\ panel = "login"
  /\ token' = 1
  /\ user' = TRUE
  /\ panel' = "main"
  /\ expired' = <<>>
  /\ UNCHANGED <<pollIntervals, timers, created, cycles, polls, taskEls, activeBatches,
                 upload, downloads, applied, svc>>
  /\ dlFailed' = FALSE

\* logoutBtn click, line 347.
LogoutClick ==
  /\ panel = "main"
  /\ Becomes(Logout(Client))
  /\ UNCHANGED <<cycles, polls, upload, downloads, dlFailed, expired, applied, svc>>

\* uploadForm submit, lines 355-381: up to the fetch.  The button is disabled while
\* a submission is in flight.
SubmitClick(jobs) ==
  /\ panel = "main"
  /\ upload = NoUpload
  /\ IF token = 0
     THEN Becomes(Logout(Client)) /\ UNCHANGED <<upload, svc>>
     ELSE /\ upload' = [sent |-> TRUE, jobs |-> jobs]
          /\ svc' = Accept(jobs)
          /\ UNCHANGED <<token, user, panel, pollIntervals, timers, created, taskEls, activeBatches>>
  /\ UNCHANGED <<cycles, polls, downloads, dlFailed, expired, applied>>

\* uploadForm submit, lines 383-387.
SubmitUnauthorized ==
  /\ upload # NoUpload
  /\ upload' = NoUpload
  /\ Becomes(Logout(Client))
  /\ expired' = Append(expired, [by |-> "submit", k |-> Cancelled(Logout(Client))])
  /\ UNCHANGED <<cycles, polls, downloads, dlFailed, applied, svc>>

\* uploadForm submit, lines 389-392 and 434-438.
SubmitFailed ==
  /\ upload # NoUpload
  /\ upload' = NoUpload
  /\ UNCHANGED <<token, user, panel, pollIntervals, timers, created, cycles, polls,
                 taskEls, activeBatches, downloads, dlFailed, expired, applied, svc>>

\* uploadForm submit, lines 394-433.
SubmitOk(body) ==
  /\ upload # NoUpload
  /\ Len(Submitted(Client, body).made) <= MaxTimers
  /\ upload' = NoUpload
  /\ Becomes(Submitted(Client, body))
  /\ UNCHANGED <<cycles, polls, downloads, dlFailed, expired, applied, svc>>

\* Status requests issued so far.
RECURSIVE SumTo(_)
SumTo(n) == IF n = 0 THEN 0 ELSE cycles[n] + SumTo(n - 1)
Issued == SumTo(MaxTimers)

\* Tick without the token check: the request goes out whatever getToken returns.
TickNoCheck(i, s) ==
  /\ i \in timers
  /\ Issued < MaxRequests
  /\ cycles' = [cycles EXCEPT ![i] = @ + 1]
  /\ polls' = polls \cup {[iv |-> i, seq |-> cycles[i] + 1, snap |-> s]}
  /\ svc' = Seen(created[i], s)
  /\ UNCHANGED <<token, user, panel, pollIntervals, timers, created, taskEls, activeBatches,
                 upload, downloads, dlFailed, expired, applied>>

\* The interval callback, lines 283-293: up to the fetch.
Tick(i, s) ==
  /\ i \in timers
  /\ IF token = 0
     THEN Becomes(Unsubscribe(Client, i)) /\ UNCHANGED <<cycles, polls, svc>>
     ELSE /\ Issued < MaxRequests
          /\ cycles' = [cycles EXCEPT ![i] = @ + 1]
          /\ polls' = polls \cup {[iv |-> i, seq |-> cycles[i] + 1, snap |-> s]}
          /\ svc' = Seen(created[i], s)
          /\ UNCHANGED <<token, user, panel, pollIntervals, timers, created, taskEls, activeBatches>>
  /\ UNCHANGED <<upload, downloads, dlFailed, expired, applied>>

\* OnUnauthorized clearing the session but cancelling only the callback's own timer.
OnUnauthorizedOwn(c, i) ==
  Unsubscribe([c EXCEPT !.token = 0, !.user = FALSE, !.panel = "login",
                        !.els = [j \in Jobs |-> NoEl]], i)

\* The client after the callback's 401 branch, lines 295-301.
OnUnauthorized(c, i) == Unsubscribe(Logout(c), i)

PollUnauthorized(r) ==
  /\ r \in polls
  /\ polls' = polls \ {r}
  /\ Becomes(OnUnauthorized(Client, r.iv))
  /\ expired' = Append(expired, [by |-> "poll", k |-> Cancelled(OnUnauthorized(Client, r.iv))])
  /\ UNCHANGED <<cycles, upload, downloads, dlFailed, applied, svc>>

\* OnError giving up on the job after a failed cycle.
OnErrorStop(c, i) == Unsubscribe(c, i)

\* The client after the callback's catch, lines 303 and 310-312 (a network error,
\* a status that is not ok, a body that does not parse).
OnError(c, i) == c

PollFailed(r) ==
  /\ r \in polls
  /\ polls' = polls \ {r}
  /\ Becomes(OnError(Client, r.iv))
  /\ UNCHANGED <<cycles, upload, downloads, dlFailed, expired, applied, svc>>

\* OnStatus that stops polling on completed only.
OnStatusCompletedOnly(c, i, data) ==
  IF data.state = "completed" THEN Unsubscribe(RenderTask(c, data), i) ELSE RenderTask(c, data)

\* OnStatus that renders the snapshot and never stops polling.
OnStatusKeep(c, i, data) == RenderTask(c, data)

\* The client after the callback's success branch, lines 304-309.
OnStatus(c, i, data) ==
  IF data.state \in Terminal THEN Unsubscribe(RenderTask(c, data), i) ELSE RenderTask(c, data)

PollOk(r, data) ==
  /\ r \in polls
  /\ polls' = polls \ {r}
  /\ Becomes(OnStatus(Client, r.iv, data))
  /\ applied' = [applied EXCEPT ![r.iv] = r.seq]
  /\ UNCHANGED <<cycles, upload, downloads, dlFailed, expired, svc>>

\* A download link is there to click: setDownload's link on a task element, or the
\* batch button of a container in the document.
CanDownload ==
  \/ \E j \in Jobs : taskEls[j].dl
  \/ \E b \in Batches : activeBatches[b].attached /\ activeBatches[b].btn > 0

\* link.onclick / btn.onclick, lines 155-167 and 203-215: up to the fetch.
DownloadClick ==
  /\ panel = "main"
  /\ CanDownload
  /\ IF token = 0
     THEN Becomes(Logout(Client)) /\ UNCHANGED downloads
     ELSE /\ downloads < MaxDownloads
          /\ downloads' = downloads + 1
          /\ UNCHANGED <<token, user, panel, pollIntervals, timers, created, taskEls, activeBatches>>
  /\ UNCHANGED <<cycles, polls, upload, dlFailed, expired, applied, svc>>

\* lines 169-173 and 217-221.
DownloadUnauthorized ==
  /\ downloads > 0
  /\ downloads' = downloads - 1
  /\ Becomes(Logout(Client))
  /\ expired' = Append(expired, [by |-> "download", k |-> Cancelled(Logout(Client))])
  /\ UNCHANGED <<cycles, polls, upload, dlFailed, applied, svc>>

\* lines 175-186 and 223-235: the archive is saved.
DownloadDone ==
  /\ downloads > 0
  /\ downloads' = downloads - 1
  /\ UNCHANGED <<token, user, panel, pollIntervals, timers, created, cycles, polls,
                 taskEls, activeBatches, upload, dlFailed, expired, applied, svc>>

\* OnDownloadFailed that treats every failed download as the end of the session.
OnDownloadFailedLogout(c) == Logout(c)

\* The client after the catch of a download click, lines 187-190 and 236-239:
\* console.error and the alert.
OnDownloadFailed(c) == c

\* lines 175-177 and 187-190 (223-225 and 236-239): the response is not ok, or the
\* fetch rejects, and 'Download failed' is alerted.
DownloadFailed ==
  /\ downloads > 0
  /\ downloads' = downloads - 1
  /\ dlFailed' = TRUE
  /\ Becomes(OnDownloadFailed(Client))
  /\ UNCHANGED <<cycles, polls, upload, expired, applied, svc>>

\* ------------------------------------------------------- the specifications
\* The client against the service of spec section 6.
Next ==
  \/ Login
  \/ LogoutClick
  \/ \E n \in 1..MaxDocs :
       /\ UsedJobs + n <= NumJobs
       /\ n > 1 => UsedBatches < NumBatches
       /\ SubmitClick(FreshJobs(n))
  \/ SubmitOk(ServiceBody)
  \/ SubmitUnauthorized
  \/ SubmitFailed
  \/ \E i \in timers : \E s \in Later(svc[created[i]].state) : Tick(i, s)
  \/ \E r \in polls : PollUnauthorized(r)
  \/ \E r \in polls : PollFailed(r)
  \/ \E r \in polls : PollOk(r, ServiceStatus(r))
  \/ DownloadClick
  \/ DownloadUnauthorized
  \/ DownloadDone
  \/ DownloadFailed

Spec == Init /\ [][Next]_vars

\* The client against a service that answers a submission late: by the time the
\* response is written the jobs may have been worked on, so a record of the
\* response carries any state the job may have reached.
LateBodies ==
  {[array |-> Len(upload.jobs) > 1,
    tasks |-> [k \in 1..Len(upload.jobs) |->
                 TaskRecord(upload.jobs[k], svc[upload.jobs[k]].batch, st[k])]] :
     st \in [1..Len(upload.jobs) -> Later("queued")]}

\* The service's records once the states of a response's records have been seen.
SeenAll(tasks) ==
  [j \in Jobs |->
     IF \E k \in 1..Len(tasks) : tasks[k].task_id = j
     THEN [svc[j] EXCEPT !.state = tasks[CHOOSE k \in 1..Len(tasks) : tasks[k].task_id = j].state]
     ELSE svc[j]]

\* uploadForm submit, lines 389-429, on the late response.
SubmitOkLate(body) ==
  /\ upload # NoUpload
  /\ Len(Submitted(Client, body).made) <= MaxTimers
  /\ upload' = NoUpload
  /\ Becomes(Submitted(Client, body))
  /\ svc' = SeenAll(body.tasks)
  /\ UNCHANGED <<cycles, polls, downloads, dlFailed, expired, applied>>

NextLate ==
  \/ Login
  \/ LogoutClick
  \/ \E n \in 1..MaxDocs :
       /\ UsedJobs + n <= NumJobs
       /\ n > 1 => UsedBatches < NumBatches
       /\ SubmitClick(FreshJobs(n))
  \/ \E body \in LateBodies : SubmitOkLate(body)
  \/ SubmitUnauthorized
  \/ SubmitFailed
  \/ \E i \in timers : \E s \in Later(svc[created[i]].state) : Tick(i, s)
  \/ \E r \in polls : PollUnauthorized(r)
  \/ \E r \in polls : PollFailed(r)
  \/ \E r \in polls : PollOk(r, ServiceStatus(r))
  \/ DownloadClick
  \/ DownloadUnauthorized
  \/ DownloadDone
  \/ DownloadFailed

SpecLate == Init /\ [][NextLate]_vars

\* The client against a service that keeps neither promise about identifiers: a
\* submission's response may name any job and batch identifiers (an identifier it
\* has returned before, records of different batches), and a status response may
\* carry any batch identifier and any state for the job asked for.
AnySubmitted == {TaskRecord(id, b, "queued") : id \in Jobs, b \in 0..NumBatches}

AnyBodies ==
  {[array |-> TRUE, tasks |-> t] : t \in UNION {[1..n -> AnySubmitted] : n \in 0..MaxDocs}}
    \cup {[array |-> FALSE, tasks |-> <<t>>] : t \in AnySubmitted}

AnyStatus(r) == {TaskRecord(created[r.iv], b, s) : b \in 0..NumBatches, s \in States}

NextOpen ==
  \/ Login
  \/ LogoutClick
  \/ SubmitClick(<<>>)
  \/ \E body \in AnyBodies : SubmitOk(body)
  \/ SubmitUnauthorized
  \/ SubmitFailed
  \/ \E i \in timers : Tick(i, "none")
  \/ \E r \in polls : PollUnauthorized(r)
  \/ \E r \in polls : PollFailed(r)
  \/ \E r \in polls : \E data \in AnyStatus(r) : PollOk(r, data)
  \/ DownloadClick
  \/ DownloadUnauthorized
  \/ DownloadDone
  \/ DownloadFailed

SpecOpen == Init /\ [][NextOpen]_vars

\* ================================================================ claims
Registered == {b \in Batches : activeBatches[b].registered}
Answered(r) == r \in polls /\ r \notin polls'
SessionExpired == Len(expired') > Len(expired)
TimersOf(j) == {i \in timers : created[i] = j}
Zeros == [j \in Jobs |-> 0]

C2_NoResurrection ==
  [][\A r \in polls :
       (Answered(r) /\ r.iv \notin timers) =>
          (taskEls' = taskEls /\ activeBatches' = activeBatches)]_vars

\* C3: a task element showing completed or failed never goes back to queued or
\* processing.
C3_TerminalStays ==
  [][\A j \in Jobs :
       taskEls[j].state \in Terminal => taskEls'[j].state \notin {"queued", "processing"}]_vars

\* C4: the step that handles a 401 status response clears token and user, cancels
\* every timer and empties the subscription registry.
C4_BroadcastTeardown ==
  [][\A r \in polls :
       (Answered(r) /\ SessionExpired) =>
          (token' = 0 /\ user' = FALSE /\ timers' = {} /\ pollIntervals' = Zeros)]_vars

C4_Witness ==
  /\ expired # <<>>
  /\ expired[Len(expired)] = [by |-> "poll", k |-> 2]
  /\ timers = {}
  /\ token = 0

\* C5: at most one 'Session expired' alert between one login and the next.
C5_OneNotification == Len(expired) <= 1

\* C6: no job identifier has more than one live interval timer.
C6_OneTimerPerJob == \A j \in Jobs : Cardinality(TimersOf(j)) <= 1

\* C7: with two jobs subscribed, the step that handles a 401 status response
\* unsubscribes both, clears the session and leaves every task element as it was.
C7_TeardownKeepsState ==
  [][\A r \in polls :
       (Answered(r) /\ SessionExpired /\ Cardinality(timers) = 2) =>
          (timers' = {} /\ pollIntervals' = Zeros /\ token' = 0 /\ taskEls' = taskEls)]_vars

\* C8: the responses of one interval are given to renderTask in the order their
\* requests were issued.
C8_InIssuanceOrder ==
  [][\A i \in Intervals : applied'[i] >= applied[i]]_vars

\* C9: every batch's completed set is a subset of its member set.
C9_CompletedSubset ==
  \A b \in Registered : activeBatches[b].completed \subseteq activeBatches[b].taskIds

\* C10: the step that handles a failed status request (no 401, nothing rendered)
\* changes nothing but the set of requests in flight: the subscription, the task
\* elements, the batches and the session are as before.
C10_FailureKeepsAll ==
  [][\A r \in polls :
       (Answered(r) /\ ~SessionExpired /\ applied' = applied) =>
          UNCHANGED <<token, user, panel, pollIntervals, timers, created, cycles,
                      taskEls, activeBatches, upload, downloads, svc>>]_vars

\* An interval that is still subscribed after two consecutive failed cycles.
C10_Witness ==
  \E i \in timers :
    /\ cycles[i] >= 2
    /\ applied[i] = 0
    /\ \A r \in polls : r.iv # i
    /\ pollIntervals[created[i]] = i
    /\ token = 1

\* C11: the step that ends a session (the token goes from present to absent) leaves
\* no timer, no subscription entry and no batch entry.
C11_TeardownClearsRegistries ==
  [][(token # 0 /\ token' = 0) =>
       (timers' = {} /\ pollIntervals' = Zeros /\ \A b \in Batches : ~activeBatches'[b].registered)]_vars

\* C12: the step that handles a submission's response leaves the member set, the
\* completed set and the button of every batch already registered as they were.
C12_FirstRegistrationWins ==
  [][(upload # NoUpload /\ upload' = NoUpload) =>
       \A b \in Registered :
         /\ activeBatches'[b].taskIds = activeBatches[b].taskIds
         /\ activeBatches'[b].completed = activeBatches[b].completed
         /\ activeBatches'[b].btn = activeBatches[b].btn]_vars

\* C13: the step that renders a completed or failed status response cancels the
\* interval that asked and deletes the job's registry entry, and a request is only
\* ever issued by a live interval.
C13_TerminalUnsubscribes ==
  [][/\ \A r \in polls :
          (Answered(r) /\ applied'[r.iv] # applied[r.iv] /\ r.snap \in Terminal) =>
             (r.iv \notin timers' /\ pollIntervals'[created[r.iv]] = 0)
     /\ \A r \in polls' \ polls : r.iv \in timers]_vars

\* A job whose terminal response was rendered while it was subscribed (the other
\* job's element, rendered by the same submission, is still there, so no logout
\* came between), and which is no longer subscribed.
C13_Witness ==
  \E i \in 1..Len(created) : \E j \in Jobs :
    /\ j # created[i]
    /\ taskEls[j].state = "queued"
    /\ taskEls[created[i]].state \in Terminal
    /\ applied[i] > 0
    /\ i \notin timers
    /\ pollIntervals[created[i]] = 0
    /\ token = 1

\* C14: the step that handles the response to a multi-document submission leaves
\* the batch registered with every job of the submission as its members, every
\* member the response shows completed counted, the button there exactly when all
\* are counted, and every member subscribed.
C14_RegisteredBeforeSnapshots ==
  [][(upload # NoUpload /\ upload' = NoUpload
        /\ \E j \in Jobs : taskEls[j] = NoEl /\ taskEls'[j] # NoEl) =>
       LET jobs == {upload.jobs[k] : k \in 1..Len(upload.jobs)}
           b == svc[upload.jobs[1]].batch
       IN  b # 0 =>
             /\ activeBatches'[b].registered
             /\ activeBatches'[b].taskIds = jobs
             /\ activeBatches'[b].completed = {j \in jobs : svc'[j].state = "completed"}
             /\ (activeBatches'[b].btn > 0) = (\A j \in jobs : svc'[j].state = "completed")
             /\ \A j \in jobs : pollIntervals'[j] \in timers']_vars

\* A registered batch with a member counted as completed before any status request
\* was issued: the completion came with the submission's response.
C14_Witness ==
  \E b \in Registered :
    /\ activeBatches[b].completed # {}
    /\ activeBatches[b].completed # activeBatches[b].taskIds
    /\ Issued = 0
    /\ \A j \in activeBatches[b].taskIds : pollIntervals[j] \in timers

\* C15: with a session present, a response to a request whose interval has been
\* cancelled leaves the session, the live timers and the registry as they are and
\* raises no alert.
C15_LateResponseDiscarded ==
  [][\A r \in polls :
       (Answered(r) /\ r.iv \notin timers /\ token = 1 /\ timers # {}) =>
          (token' = 1 /\ timers' = timers /\ pollIntervals' = pollIntervals /\ expired' = expired)]_vars

\* C16: the step in which a download ends with the 'Download failed' alert leaves
\* the session, the panel, the timers, the registry, the task elements and the
\* batches as they were.
C16_DownloadFailureChangesNothing ==
  [][(dlFailed' /\ downloads' < downloads /\ ~SessionExpired) =>
       UNCHANGED <<token, user, panel, pollIntervals, timers, created, cycles, polls,
                   taskEls, activeBatches, upload, expired, applied>>]_vars

\* A download has failed in this session, which is still there with a finished
\* job's link, a live timer and no download in flight.
C16_Witness ==
  /\ dlFailed
  /\ downloads = 0
  /\ token = 1
  /\ timers # {}
  /\ \E j \in Jobs : taskEls[j].dl

\* C17: a status request is only issued with a token present and by a live
\* interval, and a cycle that finds no token removes its interval and its registry
\* entry and issues nothing.
C17_NoRequestWithoutToken ==
  [][/\ \A r \in polls' \ polls : token # 0 /\ r.iv \in timers
     /\ \A i \in timers :
          (token = 0 /\ i \notin timers' /\ ~SessionExpired) =>
             (pollIntervals'[created[i]] = 0 /\ polls' = polls)]_vars

\* An interval set by a submission's response that arrived after logout, removed by
\* its first cycle without a request (the job's element, rendered with it, is still
\* there, so no logout removed the interval).
C17_Witness ==
  \E i \in 1..Len(created) :
    /\ token = 0
    /\ taskEls[created[i]].state # "none"
    /\ i \notin timers
    /\ pollIntervals[created[i]] = 0
    /\ cycles[i] = 0

\* Every member of batch b has been answered completed.
AllAnsweredCompleted(b) ==
  activeBatches[b].registered /\ activeBatches[b].completed = activeBatches[b].taskIds

\* Member j of batch b has been answered completed or failed.
AnsweredTerminal(b, j) ==
  j \in activeBatches[b].taskIds => taskEls[j].state \in Terminal

\* A member of batch b has failed.
SomeFailed(b) ==
  activeBatches[b].registered /\ \E j \in activeBatches[b].taskIds : svc[j].state = "failed"

\* No member of batch b is subscribed.
Unsubscribed(b) ==
  \A j \in activeBatches[b].taskIds : pollIntervals[j] = 0 /\ TimersOf(j) = {}

\* The batch download button of b is in the document.
Available(b) == activeBatches[b].attached /\ activeBatches[b].btn > 0

C19_UnbatchedSnapshotInert ==
  \A r \in polls : \A data \in AnyStatus(r) :
    (data.state = "completed"
       /\ (data.batch_id = 0 \/ ~activeBatches[data.batch_id].registered)) =>
      OnStatus(Client, r.iv, data).batches = activeBatches

\* A completed snapshot was applied with no batch registered, and none is.
C19_Witness ==
  /\ Registered = {}
  /\ \A b \in Batches : activeBatches[b] = NoBatch
  /\ \E j \in Jobs : taskEls[j].state = "completed"

\* C20: the registry maps exactly the jobs that have a live interval, each to that
\* interval.
C20_RegistryMatchesTimers ==
  /\ \A i \in timers : pollIntervals[created[i]] = i
  /\ \A j \in Jobs : pollIntervals[j] # 0 => pollIntervals[j] \in timers

\* One job still subscribed, the other unsubscribed by its terminal response.
C20_Witness ==
  \E i \in timers : \E k \in 1..Len(created) :
    /\ k \notin timers
    /\ applied[k] > 0
    /\ pollIntervals[created[k]] = 0
    /\ pollIntervals[created[i]] = i
    /\ token = 1

====
